---- MODULE Spec2Model ----
(***************************************************************************)
(* Model of the posting normalisation and ranking core of                  *)
(* daily_job_digest.py: the scrapers' JobListing records, the web-search   *)
(* de-duplication loop, JobFilter (time parsing, skill scoring, experience *)
(* gate, filter and sort) and ExperienceParser (extraction and matching).  *)
(*                                                                         *)
(* Text is modelled as TLA+ strings, scanned character by character.       *)
(* Times are whole hours since datetime.min.  Python's None is the         *)
(* integer None (-1); years and times are never negative.                  *)
(***************************************************************************)
EXTENDS Integers, Sequences, FiniteSets, TLC

VARIABLES
    pc,            \* position of main(): "start" .. "filtered", "rerun_fresh"/"rerun_same"; "dedupe", "deduped"
    env,           \* the module-level configuration constants read from the environment
    clock,         \* datetime.now(), in hours
    all_jobs,      \* main's all_jobs: the JobListing objects, mutated in place by the filter
    raw_jobs,      \* the JobListing objects as the scrapers created them
    job_filter,    \* the JobFilter instance built by main
    filtered_jobs, \* what filter_and_score_jobs returned
    verdicts,      \* per input posting: what check_experience_requirements and matches_requirements returned
    raised,        \* TRUE when an exception left filter_and_score_jobs
    nows,          \* the clock readings parse_posting_time took, one per posting
    second_jobs,   \* what the second call of filter_and_score_jobs returned
    dd_in,         \* de-duplication loop: the list it is given (all_jobs of search_jobs_via_web)
    dd_i,          \* de-duplication loop: number of elements consumed
    dd_seen,       \* de-duplication loop: seen_urls
    dd_out,        \* de-duplication loop: unique_jobs
    call,          \* a single method called on its own: the method's name and arguments
    ret            \* what that call returned

vars == <<pc, env, clock, all_jobs, raw_jobs, job_filter, filtered_jobs, verdicts,
          raised, nows, second_jobs, dd_in, dd_i, dd_seen, dd_out, call, ret>>

mainVars == <<pc, env, clock, all_jobs, raw_jobs, job_filter, filtered_jobs, verdicts,
              raised, nows, second_jobs>>

ddVars == <<dd_in, dd_i, dd_seen, dd_out>>

callVars == <<call, ret>>

(***************************************************************************)
(* Bounds of the model.                                                    *)
(***************************************************************************)
\* postings fetched in one run of main, all sources together
MaxJobs == 2
\* length of the list handed to the de-duplication loop
MaxDedupeLen == 3
\* first clock reading, in hours since datetime.min
ClockStart == 1000
\* digits int() accepts in a string before it raises ValueError (sys.int_max_str_digits, scaled)
MaxStrDigits == 4
\* the largest number of years among the arguments of a matcher call
MaxYears == 7
\* a number of years beyond every default, for the upper end of a long range
FarYears == 31
\* the longest list handed to the resume customization, and the largest max_jobs
MaxResumeJobs == 3

\* Optional[...] = None
None == -1

\* datetime.min, the earliest representable instant
DatetimeMin == 0

(***************************************************************************)
(* Strings.                                                                *)
(***************************************************************************)
Char(s, i) == IF i >= 1 /\ i <= Len(s) THEN SubSeq(s, i, i) ELSE ""

\* s[p:].startswith(lit)
StartsWithAt(s, p, lit) ==
    /\ p >= 1
    /\ p + Len(lit) - 1 <= Len(s)
    /\ SubSeq(s, p, p + Len(lit) - 1) = lit

\* Python's `sub in s`
Contains(s, sub) == \E i \in 1..(Len(s) - Len(sub) + 1) : SubSeq(s, i, i + Len(sub) - 1) = sub

UpperLetters == "ABCDEFGHIJKLMNOPQRSTUVWXYZ"
LowerLetters == "abcdefghijklmnopqrstuvwxyz"

\* the letters' other case, tabulated
LowerOf == [k \in 1..26 |-> SubSeq(LowerLetters, k, k)]
UpperOf == [k \in 1..26 |-> SubSeq(UpperLetters, k, k)]
UpperIndex == [c \in {UpperOf[k] : k \in 1..26} |-> CHOOSE k \in 1..26 : UpperOf[k] = c]
LowerIndex == [c \in {LowerOf[k] : k \in 1..26} |-> CHOOSE k \in 1..26 : LowerOf[k] = c]

LowerChar(c) == IF c \in DOMAIN UpperIndex THEN LowerOf[UpperIndex[c]] ELSE c

UpperChar(c) == IF c \in DOMAIN LowerIndex THEN UpperOf[LowerIndex[c]] ELSE c

IsLetter(c) == c \in DOMAIN UpperIndex \/ c \in DOMAIN LowerIndex

RECURSIVE LowerByChar(_)
\* str.lower(), character by character
LowerByChar(s) ==
    IF s = "" THEN "" ELSE LowerChar(Char(s, 1)) \o LowerByChar(SubSeq(s, 2, Len(s)))

RECURSIVE TitleFrom(_, _)
TitleFrom(s, prevLetter) ==
    IF s = "" THEN ""
    ELSE LET c == Char(s, 1)
         IN (IF prevLetter THEN LowerChar(c) ELSE UpperChar(c))
              \o TitleFrom(SubSeq(s, 2, Len(s)), IsLetter(c))

\* str.title(): the first letter of every word in upper case, the rest in lower case
Title(s) == TitleFrom(s, FALSE)

RECURSIVE LStrip(_)
LStrip(s) == IF s # "" /\ Char(s, 1) = " " THEN LStrip(SubSeq(s, 2, Len(s))) ELSE s

RECURSIVE RStrip(_)
RStrip(s) == IF s # "" /\ Char(s, Len(s)) = " " THEN RStrip(SubSeq(s, 1, Len(s) - 1)) ELSE s

\* str.strip()
Strip(s) == RStrip(LStrip(s))

DigitIndex == [c \in {SubSeq("0123456789", k, k) : k \in 1..10} |->
                  CHOOSE k \in 1..10 : SubSeq("0123456789", k, k) = c]

IsDigit(c) == c \in DOMAIN DigitIndex

DigitVal(c) == DigitIndex[c] - 1

RECURSIVE IntOf(_)
\* the value of a string of decimal digits
IntOf(s) == IF s = "" THEN 0 ELSE 10 * IntOf(SubSeq(s, 1, Len(s) - 1)) + DigitVal(Char(s, Len(s)))

\* int(s) of a digit string: [raised, value]; ValueError for more than MaxStrDigits digits
PyInt(s) ==
    IF Len(s) > MaxStrDigits THEN [raised |-> TRUE, value |-> 0]
    ELSE [raised |-> FALSE, value |-> IntOf(s)]

RECURSIVE SkipWs(_, _)
\* regular expression \s* from position p: the position after the white space
SkipWs(s, p) == IF Char(s, p) = " " THEN SkipWs(s, p + 1) ELSE p

RECURSIVE DigitsEnd(_, _)
\* regular expression \d+ from a digit at p: the position of the last digit of the run
DigitsEnd(s, p) == IF IsDigit(Char(s, p + 1)) THEN DigitsEnd(s, p + 1) ELSE p

\* a maximal run of digits begins at p
RunStart(s, p) == IsDigit(Char(s, p)) /\ ~IsDigit(Char(s, p - 1))

RECURSIVE ToStr(_)
\* f"{n}" of a non-negative integer
ToStr(n) ==
    IF n < 10 THEN Char("0123456789", n + 1)
    ELSE ToStr(n \div 10) \o Char("0123456789", (n % 10) + 1)

SetMin(S) == CHOOSE x \in S : \A y \in S : x <= y

\* urlparse(url).netloc: what stands between "//" and the next "/", "?" or "#"
Netloc(url) ==
    LET slashes == {p \in 1..Len(url) : StartsWithAt(url, p, "//")}
        from == SetMin(slashes) + 2
        ends == {p \in from..Len(url) : Char(url, p) \in {"/", "?", "#"}}
    IN IF slashes = {} THEN ""
       ELSE SubSeq(url, from, IF ends = {} THEN Len(url) ELSE SetMin(ends) - 1)

(***************************************************************************)
(* ExperienceParser.                                                       *)
(***************************************************************************)
\* \s*years?\s*(?:of\s*)?(?:experience|exp) matches at p
TailAt(s, p) ==
    LET a == SkipWs(s, p)
        b == IF Char(s, a + 4) = "s" THEN a + 5 ELSE a + 4
        c == SkipWs(s, b)
        d == IF StartsWithAt(s, c, "of") THEN SkipWs(s, c + 2) ELSE c
    IN StartsWithAt(s, a, "year") /\ StartsWithAt(s, d, "exp")

\* (\d+)\s*years?... from the digit at q: the run of digits, then the tail
DigitsThenTail(s, q) == IsDigit(Char(s, q)) /\ TailAt(s, DigitsEnd(s, q) + 1)

Digits(s, q) == SubSeq(s, q, DigitsEnd(s, q))

\* where the digits of (?:minimum|min|at\s*least)\s*(\d+) begin for a match starting at p; 0 without one
MinPrefixDigits(s, p) ==
    LET afterMinimum == SkipWs(s, p + 7)
        afterMin == SkipWs(s, p + 3)
        least == SkipWs(s, p + 2)
        afterLeast == SkipWs(s, least + 5)
    IN IF StartsWithAt(s, p, "minimum") /\ DigitsThenTail(s, afterMinimum) THEN afterMinimum
       ELSE IF StartsWithAt(s, p, "min") /\ DigitsThenTail(s, afterMin) THEN afterMin
       ELSE IF StartsWithAt(s, p, "at") /\ StartsWithAt(s, least, "least")
               /\ DigitsThenTail(s, afterLeast) THEN afterLeast
       ELSE 0

\* the start positions of the matches of experience_patterns[k] in s
PatternStarts(s, k) ==
    {p \in 1..Len(s) :
        CASE k = 1 -> /\ RunStart(s, p)
                      /\ Char(s, DigitsEnd(s, p) + 1) = "-"
                      /\ DigitsThenTail(s, SkipWs(s, DigitsEnd(s, p) + 2))
          [] k = 2 -> /\ RunStart(s, p)
                      /\ Char(s, DigitsEnd(s, p) + 1) = "+"
                      /\ TailAt(s, DigitsEnd(s, p) + 2)
          [] k = 3 -> MinPrefixDigits(s, p) # 0
          [] k = 4 -> RunStart(s, p) /\ TailAt(s, DigitsEnd(s, p) + 1)
          [] k = 5 -> /\ RunStart(s, p)
                      /\ StartsWithAt(s, SkipWs(s, DigitsEnd(s, p) + 1), "to")
                      /\ DigitsThenTail(s, SkipWs(s, SkipWs(s, DigitsEnd(s, p) + 1) + 2))}

\* the groups of the match of experience_patterns[k] that starts at p
GroupsAt(s, k, p) ==
    LET e == DigitsEnd(s, p)
    IN CASE k = 1 -> <<Digits(s, p), Digits(s, SkipWs(s, e + 2))>>
         [] k = 2 -> <<Digits(s, p)>>
         [] k = 3 -> <<Digits(s, MinPrefixDigits(s, p))>>
         [] k = 4 -> <<Digits(s, p)>>
         [] k = 5 -> <<Digits(s, p), Digits(s, SkipWs(s, SkipWs(s, e + 1) + 2))>>

\* a pass that labels a single bound "N years", without the plus sign
PatternAttemptPlainLabel(s, k) ==
    LET Groups(g) ==
            IF Len(g) = 2
            THEN IF PyInt(g[1]).raised \/ PyInt(g[2]).raised THEN <<>>
                 ELSE <<ToStr(PyInt(g[1]).value) \o "-" \o ToStr(PyInt(g[2]).value) \o " years",
                        PyInt(g[1]).value, PyInt(g[2]).value>>
            ELSE IF PyInt(g[1]).raised THEN <<>>
                 ELSE <<ToStr(PyInt(g[1]).value) \o " years", PyInt(g[1]).value, None>>
        Matches(starts) ==
            IF starts = {} THEN <<>> ELSE Groups(GroupsAt(s, k, SetMin(starts)))
    IN Matches(PatternStarts(s, k))

\* one pass of the loop over the numeric patterns, for experience_patterns[k]:
\* the tuple it returns, or <<>> when it goes on to the next pattern (no match,
\* or int() raised ValueError and the except clause continued)
PatternAttempt(s, k) ==
    LET Groups(g) ==
            IF Len(g) = 2
            THEN IF PyInt(g[1]).raised \/ PyInt(g[2]).raised THEN <<>>
                 ELSE <<ToStr(PyInt(g[1]).value) \o "-" \o ToStr(PyInt(g[2]).value) \o " years",
                        PyInt(g[1]).value, PyInt(g[2]).value>>
            ELSE IF PyInt(g[1]).raised THEN <<>>
                 ELSE <<ToStr(PyInt(g[1]).value) \o "+ years", PyInt(g[1]).value, None>>
        \* re.findall(...)[0]
        Matches(starts) ==
            IF starts = {} THEN <<>> ELSE Groups(GroupsAt(s, k, SetMin(starts)))
    IN Matches(PatternStarts(s, k))

RECURSIVE NumericFrom(_, _)
\* the loop over experience_patterns[:5] from pattern k on
NumericFrom(s, k) ==
    IF k > 5 THEN <<>>
    ELSE LET OrNext(a) == IF a # <<>> THEN a ELSE NumericFrom(s, k + 1)
         IN OrNext(PatternAttempt(s, k))

\* a mapping that leaves "fresher" to the no-experience indicators
level_mappings_without_fresher ==
    << <<"graduate", 0, 2>>, <<"entry level", 0, 2>>,
       <<"junior", 0, 3>>, <<"mid level", 2, 8>>, <<"intermediate", 3, 8>>,
       <<"senior", 5, 15>>, <<"lead", 7, 20>>, <<"principal", 8, 20>> >>

\* level_mappings, in the dict's insertion order
level_mappings ==
    << <<"fresher", 0, 1>>, <<"graduate", 0, 2>>, <<"entry level", 0, 2>>,
       <<"junior", 0, 3>>, <<"mid level", 2, 8>>, <<"intermediate", 3, 8>>,
       <<"senior", 5, 15>>, <<"lead", 7, 20>>, <<"principal", 8, 20>> >>

no_exp_indicators == <<"no experience", "fresher", "0 years", "entry level">>

\* a parser that returns the named level that stands first in the text
parse_experience_requirements_leftmost_level(job_text) ==
    LET LevelOrIndicator(s) ==
            LET At(i) == {p \in 1..Len(s) : StartsWithAt(s, p, level_mappings[i][1])}
                levels == {i \in 1..Len(level_mappings) : At(i) # {}}
                level == level_mappings[CHOOSE i \in levels :
                                           \A j \in levels : SetMin(At(i)) <= SetMin(At(j))]
                noexp == {i \in 1..Len(no_exp_indicators) : Contains(s, no_exp_indicators[i])}
            IN IF levels # {} THEN <<Title(level[1]), level[2], level[3]>>
               ELSE IF noexp # {} THEN <<Title(no_exp_indicators[SetMin(noexp)]), 0, 2>>
               ELSE <<"", None, None>>
        Numeric(s, numeric) == IF numeric # <<>> THEN numeric ELSE LevelOrIndicator(s)
        Lowered(s) == Numeric(s, NumericFrom(s, 1))
    IN Lowered(LowerByChar(job_text))

\* a parser that looks for the named levels before the numeric patterns
parse_experience_requirements_levels_first(job_text) ==
    LET Rest(s, numeric) ==
            LET noexp == {i \in 1..Len(no_exp_indicators) : Contains(s, no_exp_indicators[i])}
            IN IF numeric # <<>> THEN numeric
               ELSE IF noexp # {} THEN <<Title(no_exp_indicators[SetMin(noexp)]), 0, 2>>
               ELSE <<"", None, None>>
        Lowered(s) ==
            LET levels == {i \in 1..Len(level_mappings) : Contains(s, level_mappings[i][1])}
                level == level_mappings[SetMin(levels)]
            IN IF levels # {} THEN <<Title(level[1]), level[2], level[3]>>
               ELSE Rest(s, NumericFrom(s, 1))
    IN Lowered(LowerByChar(job_text))

\* (raw_text, min_years, max_years)
parse_experience_requirements(job_text) ==
    LET LevelOrIndicator(s) ==
            LET levels == {i \in 1..Len(level_mappings) : Contains(s, level_mappings[i][1])}
                level == level_mappings[SetMin(levels)]
                noexp == {i \in 1..Len(no_exp_indicators) : Contains(s, no_exp_indicators[i])}
            IN IF levels # {} THEN <<Title(level[1]), level[2], level[3]>>
               ELSE IF noexp # {} THEN <<Title(no_exp_indicators[SetMin(noexp)]), 0, 2>>
               ELSE <<"", None, None>>
        Numeric(s, numeric) == IF numeric # <<>> THEN numeric ELSE LevelOrIndicator(s)
        Lowered(s) == Numeric(s, NumericFrom(s, 1))
    IN Lowered(LowerByChar(job_text))

(***************************************************************************)
(* What the scrapers can deliver.                                          *)
(***************************************************************************)
\* job pages: the title, description and "posted" text a scraper extracts
Pages ==
    << [title |-> "ML Engineer", description |-> "", posted |-> "Just now"],
       [title |-> "Junior Data Entry Clerk", description |-> "", posted |-> "2 days ago"],
       [title |-> "Senior ML Developer", description |-> "5+ years experience with PyTorch, Python",
        posted |-> "3 hours ago"],
       [title |-> "Data Analyst", description |-> "", posted |-> "9999 weeks ago"],
       [title |-> "Data Analyst", description |-> "2-5 Years of Experience",
        posted |-> "99999 days ago"],
       [title |-> "ML Engineer Intern", description |-> "", posted |-> "Just now"] >>

\* the cards of the Indeed result page: any page, under Indeed's own link
IndeedCards == [page : 1..Len(Pages), link : {"https://in.indeed.com/a"}]

\* the cards of the LinkedIn result list; an empty href gives an empty link
LinkedInCards ==
    {[page |-> 1, link |-> ""], [page |-> 3, link |-> "https://linkedin.com/j"],
     [page |-> 4, link |-> "https://linkedin.com/j"]}

\* the web search results that lead to a job page; a result may repeat Indeed's link
Results ==
    {[page |-> 1, link |-> "https://in.indeed.com/a", snippet |-> ""],
     [page |-> 3, link |-> "https://in.indeed.com/a", snippet |-> ""],
     [page |-> 2, link |-> "https://naukri.com/n", snippet |-> ""],
     [page |-> 4, link |-> "https://naukri.com/n", snippet |-> "Minimum 3 years experience"]}

\* the values of the environment's configuration
Envs ==
    [PREFERRED_SKILLS : {<<"python", "PyTorch", " Machine Learning", "AI">>},
     EXCLUDE_KEYWORDS : {<<"intern", "junior">>},
     MIN_SKILL_MATCH_SCORE : {0, 1},
     MIN_EXPERIENCE_YEARS : {6},
     MAX_EXPERIENCE_YEARS : {8},
     EXCLUDE_EXPERIENCE_KEYWORDS : {<<>>, <<"Senior", " Analyst">>},
     INCLUDE_UNKNOWN_EXPERIENCE : BOOLEAN]

NoFilter == [preferred_skills |-> <<>>]

(***************************************************************************)
(* lower() and the experience parser, tabulated over the texts of the      *)
(* model.  A text outside a table is computed directly, so the tables      *)
(* change no value.                                                        *)
(***************************************************************************)
JobTexts == {Pages[i].title \o " " \o Pages[i].description : i \in 1..Len(Pages)}

\* the texts the scrapers and the filter hand to parse_experience_requirements
ExperienceTexts ==
    JobTexts \cup {Pages[r.page].title \o " " \o Pages[r.page].description \o " " \o r.snippet :
                      r \in Results}

ExperienceTable == [t \in ExperienceTexts |-> parse_experience_requirements(t)]

\* parse_experience_requirements(job_text)
ExperienceOf(job_text) ==
    LET Lookup(table) ==
            IF job_text \in DOMAIN table THEN table[job_text]
            ELSE parse_experience_requirements(job_text)
    IN Lookup(ExperienceTable)

\* the texts that are lower-cased
LowerTexts ==
    JobTexts
      \cup {Pages[i].title : i \in 1..Len(Pages)}
      \cup {Pages[i].posted : i \in 1..Len(Pages)}
      \cup {Netloc(r.link) : r \in Results}

LowerTable == [t \in LowerTexts |-> LowerByChar(t)]

\* str.lower()
Lower(s) ==
    LET Lookup(table) == IF s \in DOMAIN table THEN table[s] ELSE LowerByChar(s)
    IN Lookup(LowerTable)

RECURSIVE CleanList(_)
\* [x.strip().lower() for x in xs if x.strip()]
CleanList(xs) ==
    IF xs = <<>> THEN <<>>
    ELSE (IF Strip(Head(xs)) # "" THEN <<Lower(Strip(Head(xs)))>> ELSE <<>>) \o CleanList(Tail(xs))

(***************************************************************************)
(* JobFilter.parse_posting_time.                                           *)
(***************************************************************************)
\* re.search(r'(\d+)\s*<unit>', s): group 1 of the leftmost match, "" without a match
SearchIntBefore(s, unit) ==
    LET starts == {p \in 1..Len(s) :
                      /\ RunStart(s, p)
                      /\ StartsWithAt(s, SkipWs(s, DigitsEnd(s, p) + 1), unit)}
    IN IF starts = {} THEN ""
       ELSE SubSeq(s, SetMin(starts), DigitsEnd(s, SetMin(starts)))

\* now - timedelta(hours=h): OverflowError when the result is before datetime.min
\* (a timedelta beyond timedelta.max is further away still)
MinusHours(now, h) ==
    IF now - h < DatetimeMin THEN [raised |-> TRUE, value |-> None]
    ELSE [raised |-> FALSE, value |-> now - h]

\* one branch of the elif chain: the match, int() and the subtraction
TimeBranch(posted_lower, now, unit, hoursPerUnit) ==
    LET Subtracted(d) == [raised |-> d.raised, returned |-> ~d.raised, value |-> d.value]
        Matched(g) ==
            IF g = "" THEN [raised |-> FALSE, returned |-> FALSE, value |-> None]
            ELSE IF PyInt(g).raised THEN [raised |-> TRUE, returned |-> FALSE, value |-> None]
            ELSE Subtracted(MinusHours(now, PyInt(g).value * hoursPerUnit))
    IN Matched(SearchIntBefore(posted_lower, unit))

\* a try statement that goes on to the next category when a keyword has no integer
TimeTryFallingThrough(posted_lower, now) ==
    LET Or(r, next) == IF r.raised \/ r.returned THEN r ELSE next
        none == [raised |-> FALSE, returned |-> FALSE, value |-> None]
        Branch(unit, hoursPerUnit) ==
            IF Contains(posted_lower, unit) THEN TimeBranch(posted_lower, now, unit, hoursPerUnit)
            ELSE none
    IN IF Contains(posted_lower, "just") \/ Contains(posted_lower, "now")
       THEN [raised |-> FALSE, returned |-> TRUE, value |-> now]
       ELSE Or(Branch("hour", 1),
               Or(Branch("day", 24), Or(Branch("week", 24 * 7), Branch("month", 24 * 30))))

\* a try statement that counts a month as 31 days
TimeTryMonthOf31Days(posted_lower, now) ==
    IF Contains(posted_lower, "just") \/ Contains(posted_lower, "now")
    THEN [raised |-> FALSE, returned |-> TRUE, value |-> now]
    ELSE IF Contains(posted_lower, "hour") THEN TimeBranch(posted_lower, now, "hour", 1)
    ELSE IF Contains(posted_lower, "day") THEN TimeBranch(posted_lower, now, "day", 24)
    ELSE IF Contains(posted_lower, "week") THEN TimeBranch(posted_lower, now, "week", 24 * 7)
    ELSE IF Contains(posted_lower, "month") THEN TimeBranch(posted_lower, now, "month", 24 * 31)
    ELSE [raised |-> FALSE, returned |-> FALSE, value |-> None]

\* the body of the try statement
TimeTry(posted_lower, now) ==
    IF Contains(posted_lower, "just") \/ Contains(posted_lower, "now")
    THEN [raised |-> FALSE, returned |-> TRUE, value |-> now]
    ELSE IF Contains(posted_lower, "hour") THEN TimeBranch(posted_lower, now, "hour", 1)
    ELSE IF Contains(posted_lower, "day") THEN TimeBranch(posted_lower, now, "day", 24)
    ELSE IF Contains(posted_lower, "week") THEN TimeBranch(posted_lower, now, "week", 24 * 7)
    ELSE IF Contains(posted_lower, "month") THEN TimeBranch(posted_lower, now, "month", 24 * 30)
    ELSE [raised |-> FALSE, returned |-> FALSE, value |-> None]

\* parse_posting_time without its except clause: the exception leaves the method
parse_posting_time_unguarded(posted_text, now) ==
    LET Tried(r) ==
            IF r.raised THEN [raised |-> TRUE, value |-> None]
            ELSE [raised |-> FALSE, value |-> IF r.returned THEN r.value ELSE now]
    IN Tried(TimeTry(Strip(Lower(posted_text)), now))

\* a parse_posting_time that ends with `return None` instead of `return now`
parse_posting_time_returning_none(posted_text, now) ==
    LET Tried(r) == [raised |-> FALSE, value |-> IF r.returned THEN r.value ELSE None]
    IN Tried(TimeTry(Strip(Lower(posted_text)), now))

\* [raised, value]: the bare except swallows every exception and the method returns now
parse_posting_time(posted_text, now) ==
    LET Tried(r) == [raised |-> FALSE, value |-> IF r.returned THEN r.value ELSE now]
    IN Tried(TimeTry(Strip(Lower(posted_text)), now))

Max(a, b) == IF a >= b THEN a ELSE b
Min(a, b) == IF a <= b THEN a ELSE b
Abs(a) == IF a < 0 THEN -a ELSE a

\* a matcher that takes a gap of three years for a near miss
calculate_experience_match_score_near_within_three(job_min, job_max, filter_min, filter_max, include_unknown_global) ==
    IF job_min = None /\ job_max = None
    THEN [raised |-> FALSE, value |-> IF include_unknown_global THEN 5 ELSE 0]
    ELSE LET jmin == IF job_min = None THEN 0 ELSE job_min
             jmax == IF job_max = None THEN jmin + 5 ELSE job_max
             overlap_start == Max(jmin, filter_min)
             overlap_end == Min(jmax, filter_max)
             job_range == jmax - jmin + 1
             filter_range == filter_max - filter_min + 1
             overlap_range == overlap_end - overlap_start + 1
             distance == Min(Abs(jmin - filter_max), Abs(filter_min - jmax))
         IN IF overlap_start <= overlap_end
            THEN [raised |-> FALSE,
                  value |-> (10 * overlap_range) \div Min(job_range, filter_range)]
            ELSE [raised |-> FALSE, value |-> IF distance <= 3 THEN 3 ELSE 0]

\* a matcher that gives a posting without a maximum a spread of ten years
calculate_experience_match_score_open_end_ten(job_min, job_max, filter_min, filter_max, include_unknown_global) ==
    IF job_min = None /\ job_max = None
    THEN [raised |-> FALSE, value |-> IF include_unknown_global THEN 5 ELSE 0]
    ELSE LET jmin == IF job_min = None THEN 0 ELSE job_min
             jmax == IF job_max = None THEN jmin + 10 ELSE job_max
             overlap_start == Max(jmin, filter_min)
             overlap_end == Min(jmax, filter_max)
             job_range == jmax - jmin + 1
             filter_range == filter_max - filter_min + 1
             overlap_range == overlap_end - overlap_start + 1
             distance == Min(Abs(jmin - filter_max), Abs(filter_min - jmax))
         IN IF overlap_start <= overlap_end
            THEN [raised |-> FALSE,
                  value |-> (10 * overlap_range) \div Min(job_range, filter_range)]
            ELSE [raised |-> FALSE, value |-> IF distance <= 2 THEN 3 ELSE 0]

\* a matcher that measures the gap from the posting's minimum to the filter's maximum only
calculate_experience_match_score_one_sided_distance(job_min, job_max, filter_min, filter_max, include_unknown_global) ==
    IF job_min = None /\ job_max = None
    THEN [raised |-> FALSE, value |-> IF include_unknown_global THEN 5 ELSE 0]
    ELSE LET jmin == IF job_min = None THEN 0 ELSE job_min
             jmax == IF job_max = None THEN jmin + 5 ELSE job_max
             overlap_start == Max(jmin, filter_min)
             overlap_end == Min(jmax, filter_max)
             job_range == jmax - jmin + 1
             filter_range == filter_max - filter_min + 1
             overlap_range == overlap_end - overlap_start + 1
             distance == Abs(jmin - filter_max)
         IN IF overlap_start <= overlap_end
            THEN [raised |-> FALSE,
                  value |-> (10 * overlap_range) \div Min(job_range, filter_range)]
            ELSE [raised |-> FALSE, value |-> IF distance <= 2 THEN 3 ELSE 0]

\* a matcher that measures the overlap against the larger of the two ranges
calculate_experience_match_score_by_larger_range(job_min, job_max, filter_min, filter_max, include_unknown_global) ==
    IF job_min = None /\ job_max = None
    THEN [raised |-> FALSE, value |-> IF include_unknown_global THEN 5 ELSE 0]
    ELSE LET jmin == IF job_min = None THEN 0 ELSE job_min
             jmax == IF job_max = None THEN jmin + 5 ELSE job_max
             overlap_start == Max(jmin, filter_min)
             overlap_end == Min(jmax, filter_max)
             job_range == jmax - jmin + 1
             filter_range == filter_max - filter_min + 1
             overlap_range == overlap_end - overlap_start + 1
             distance == Min(Abs(jmin - filter_max), Abs(filter_min - jmax))
         IN IF overlap_start <= overlap_end
            THEN [raised |-> FALSE,
                  value |-> (10 * overlap_range) \div Max(job_range, filter_range)]
            ELSE [raised |-> FALSE, value |-> IF distance <= 2 THEN 3 ELSE 0]

\* a matcher that scores a near miss by its distance, without the overlap test
calculate_experience_match_score_without_overlap_test(job_min, job_max, filter_min, filter_max, include_unknown_global) ==
    IF job_min = None /\ job_max = None
    THEN [raised |-> FALSE, value |-> IF include_unknown_global THEN 5 ELSE 0]
    ELSE LET jmin == IF job_min = None THEN 0 ELSE job_min
             jmax == IF job_max = None THEN jmin + 5 ELSE job_max
             overlap_start == Max(jmin, filter_min)
             overlap_end == Min(jmax, filter_max)
             job_range == jmax - jmin + 1
             filter_range == filter_max - filter_min + 1
             overlap_range == overlap_end - overlap_start + 1
         IN IF Min(job_range, filter_range) <= 0
            THEN [raised |-> FALSE, value |-> 0]
            ELSE [raised |-> FALSE,
                  value |-> (10 * overlap_range) \div Min(job_range, filter_range)]

\* [raised, value]; include_unknown_global is the module constant INCLUDE_UNKNOWN_EXPERIENCE.
\* int(overlap_ratio * 10) equals (10 * overlap_range) \div the smaller range for
\* positive integers below 10^15, where the quotient of two doubles is still exact
\* enough; a zero divisor raises ZeroDivisionError.
calculate_experience_match_score(job_min, job_max, filter_min, filter_max, include_unknown_global) ==
    IF job_min = None /\ job_max = None
    THEN [raised |-> FALSE, value |-> IF include_unknown_global THEN 5 ELSE 0]
    ELSE LET jmin == IF job_min = None THEN 0 ELSE job_min
             jmax == IF job_max = None THEN jmin + 5 ELSE job_max
             overlap_start == Max(jmin, filter_min)
             overlap_end == Min(jmax, filter_max)
             job_range == jmax - jmin + 1
             filter_range == filter_max - filter_min + 1
             overlap_range == overlap_end - overlap_start + 1
             distance == Min(Abs(jmin - filter_max), Abs(filter_min - jmax))
         IN IF overlap_start <= overlap_end
            THEN IF Min(job_range, filter_range) = 0
                 THEN [raised |-> TRUE, value |-> 0]
                 ELSE [raised |-> FALSE,
                       value |-> (10 * overlap_range) \div Min(job_range, filter_range)]
            ELSE [raised |-> FALSE, value |-> IF distance <= 2 THEN 3 ELSE 0]

(***************************************************************************)
(* JobListing and JobFilter.                                               *)
(***************************************************************************)
\* JobListing(...) as the scrapers call it; oid stands for the object's identity
JobListing(oid, source, title, posted, link, description, exp) ==
    [oid |-> oid, source |-> source, title |-> title, posted |-> posted, link |-> link,
     description |-> description, skills_found |-> <<>>, skill_score |-> 0,
     posting_time |-> None, experience_required |-> exp[1],
     experience_years_min |-> exp[2], experience_years_max |-> exp[3],
     experience_match_score |-> 0, resume_customized |-> FALSE]

\* JobFilter.__init__ as main calls it, from the module constants e
JobFilterInit(e) ==
    [preferred_skills |-> CleanList(e.PREFERRED_SKILLS),
     exclude_keywords |-> CleanList(e.EXCLUDE_KEYWORDS),
     min_skill_score |-> e.MIN_SKILL_MATCH_SCORE,
     min_experience_years |-> e.MIN_EXPERIENCE_YEARS,
     max_experience_years |-> e.MAX_EXPERIENCE_YEARS,
     exclude_experience_keywords |-> CleanList(e.EXCLUDE_EXPERIENCE_KEYWORDS),
     include_unknown_experience |-> e.INCLUDE_UNKNOWN_EXPERIENCE]

\* the skills found, listed from the last entry of the list to the first
SkillsInReversed(job_text, skills) ==
    LET Reversed(found) == [n \in 1..Len(found) |-> found[Len(found) + 1 - n]]
    IN Reversed(SelectSeq(skills, LAMBDA skill : Contains(job_text, skill)))

\* sum(skill in job_text for skill in skills) and the skills found, in list order
SkillsIn(job_text, skills) == SelectSeq(skills, LAMBDA skill : Contains(job_text, skill))

\* a scorer that adds to the skills the posting already carries
extract_skills_accumulating(job, f) ==
    LET Found(found) == <<job.skills_found \o found, Len(job.skills_found \o found)>>
    IN Found(SkillsIn(Lower(job.title \o " " \o job.description), f.preferred_skills))

\* (found_skills, skill_score)
extract_skills(job, f) ==
    LET Found(found) == <<found, Len(found)>>
    IN Found(SkillsIn(Lower(job.title \o " " \o job.description), f.preferred_skills))

\* a gate that consults the excluded keywords before it looks at the bounds
check_experience_requirements_keywords_first(job, f, include_unknown_global) ==
    LET Scored(score) ==
            [ret |-> score.value > 0,
             job |-> [job EXCEPT !.experience_match_score = score.value],
             raised |-> score.raised]
        Excluded(job_text) ==
            \E i \in 1..Len(f.exclude_experience_keywords) :
                Contains(job_text, f.exclude_experience_keywords[i])
    IN IF Excluded(Lower(job.title \o " " \o job.description \o " " \o job.experience_required))
       THEN [ret |-> FALSE, job |-> job, raised |-> FALSE]
       ELSE IF job.experience_years_min = None /\ job.experience_years_max = None
       THEN [ret |-> f.include_unknown_experience, job |-> job, raised |-> FALSE]
       ELSE Scored(calculate_experience_match_score(
                       job.experience_years_min, job.experience_years_max,
                       f.min_experience_years, f.max_experience_years, include_unknown_global))

\* a gate that asks the matcher for the score of an experience-unknown posting too
check_experience_requirements_scoring_unknown(job, f, include_unknown_global) ==
    LET unknown == job.experience_years_min = None /\ job.experience_years_max = None
        Scored(score) ==
            [ret |-> score.value > 0 \/ (unknown /\ f.include_unknown_experience),
             job |-> [job EXCEPT !.experience_match_score = score.value],
             raised |-> score.raised]
        Excluded(job_text) ==
            \E i \in 1..Len(f.exclude_experience_keywords) :
                Contains(job_text, f.exclude_experience_keywords[i])
    IN IF ~unknown
          /\ Excluded(Lower(job.title \o " " \o job.description \o " " \o job.experience_required))
       THEN [ret |-> FALSE, job |-> job, raised |-> FALSE]
       ELSE Scored(calculate_experience_match_score(
                       job.experience_years_min, job.experience_years_max,
                       f.min_experience_years, f.max_experience_years, include_unknown_global))

\* [ret, job, raised]: the return value and the job as the method leaves it
check_experience_requirements(job, f, include_unknown_global) ==
    LET unknown == job.experience_years_min = None /\ job.experience_years_max = None
        Scored(score) ==
            IF score.raised THEN [ret |-> FALSE, job |-> job, raised |-> TRUE]
            ELSE [ret |-> score.value > 0 \/ (unknown /\ f.include_unknown_experience),
                  job |-> [job EXCEPT !.experience_match_score = score.value],
                  raised |-> FALSE]
        Excluded(job_text) ==
            \E i \in 1..Len(f.exclude_experience_keywords) :
                Contains(job_text, f.exclude_experience_keywords[i])
    IN IF unknown
       THEN [ret |-> f.include_unknown_experience, job |-> job, raised |-> FALSE]
       ELSE IF Excluded(Lower(job.title \o " " \o job.description \o " " \o job.experience_required))
       THEN [ret |-> FALSE, job |-> job, raised |-> FALSE]
       ELSE Scored(calculate_experience_match_score(
                       job.experience_years_min, job.experience_years_max,
                       f.min_experience_years, f.max_experience_years, include_unknown_global))

title_fallback_keywords == <<"ml", "machine learning", "ai">>

\* a filter whose title fallback forces retention whatever the experience gate said
matches_requirements_fallback_first(job, f, include_unknown_global) ==
    LET skill_score == Len(SkillsIn(Lower(job.title \o " " \o job.description), f.preferred_skills))
        Fallback(job_title) ==
            \E i \in 1..Len(title_fallback_keywords) :
                Contains(job_title, title_fallback_keywords[i])
        Gate(exp) ==
            [ret |-> Fallback(Lower(job.title)) \/ (exp.ret /\ skill_score >= f.min_skill_score),
             exp_ok |-> exp.ret, job |-> exp.job, raised |-> exp.raised]
    IN Gate(check_experience_requirements(job, f, include_unknown_global))

\* a filter whose skill gate asks for more than the minimum score
matches_requirements_strict(job, f, include_unknown_global) ==
    LET skill_score == Len(SkillsIn(Lower(job.title \o " " \o job.description), f.preferred_skills))
        Fallback(job_title) ==
            \E i \in 1..Len(title_fallback_keywords) :
                Contains(job_title, title_fallback_keywords[i])
        Gate(exp) ==
            [ret |-> exp.ret /\ ((skill_score > f.min_skill_score) \/ Fallback(Lower(job.title))),
             exp_ok |-> exp.ret, job |-> exp.job, raised |-> exp.raised]
    IN Gate(check_experience_requirements(job, f, include_unknown_global))

\* [ret, exp_ok, job, raised]
matches_requirements(job, f, include_unknown_global) ==
    LET skill_score == Len(SkillsIn(Lower(job.title \o " " \o job.description), f.preferred_skills))
        Fallback(job_title) ==
            \E i \in 1..Len(title_fallback_keywords) :
                Contains(job_title, title_fallback_keywords[i])
        Gate(exp) ==
            IF ~exp.ret
            THEN [ret |-> FALSE, exp_ok |-> FALSE, job |-> exp.job, raised |-> exp.raised]
            ELSE [ret |-> (skill_score >= f.min_skill_score) \/ Fallback(Lower(job.title)),
                  exp_ok |-> TRUE, job |-> exp.job, raised |-> FALSE]
    IN Gate(check_experience_requirements(job, f, include_unknown_global))

\* the body of the for loop of filter_and_score_jobs for one job, now being the clock reading
FilterOne(job, f, now, include_unknown_global) ==
    LET SetSkills(posting_time, sk) ==
            [job EXCEPT !.posting_time = posting_time, !.skills_found = sk[1],
                        !.skill_score = sk[2]]
        SetExperience(j, ex) ==
            [j EXCEPT !.experience_required = ex[1], !.experience_years_min = ex[2],
                      !.experience_years_max = ex[3]]
        \* if not job.experience_required and not job.experience_years_min
        Reparse(j) ==
            IF j.experience_required = ""
                 /\ (j.experience_years_min = None \/ j.experience_years_min = 0)
            THEN SetExperience(j, ExperienceOf(j.title \o " " \o j.description))
            ELSE j
        Verdict(m) == [job |-> m.job, keep |-> m.ret, exp_ok |-> m.exp_ok, raised |-> m.raised]
        Timed(t) ==
            IF t.raised THEN [job |-> job, keep |-> FALSE, exp_ok |-> FALSE, raised |-> TRUE]
            ELSE Verdict(matches_requirements(Reparse(SetSkills(t.value, extract_skills(job, f))),
                                              f, include_unknown_global))
    IN Timed(parse_posting_time(job.posted, now))

\* the sort key of filtered_jobs.sort
SortKey(x) ==
    <<-x.experience_match_score, -x.skill_score,
      IF x.posting_time = None THEN DatetimeMin ELSE x.posting_time>>

\* tuple comparison a < b
KeyLess(a, b) ==
    \/ a[1] < b[1]
    \/ a[1] = b[1] /\ a[2] < b[2]
    \/ a[1] = b[1] /\ a[2] = b[2] /\ a[3] < b[3]

RECURSIVE InsertSortedBeforeEquals(_, _)
\* an insertion that puts x before the elements of equal key: not stable
InsertSortedBeforeEquals(sorted, x) ==
    IF sorted = <<>> THEN <<x>>
    ELSE IF ~KeyLess(SortKey(Head(sorted)), SortKey(x)) THEN <<x>> \o sorted
    ELSE <<Head(sorted)>> \o InsertSortedBeforeEquals(Tail(sorted), x)

RECURSIVE InsertSorted(_, _)
\* x after every element whose key is not greater: list.sort is stable
InsertSorted(sorted, x) ==
    IF sorted = <<>> THEN <<x>>
    ELSE IF KeyLess(SortKey(x), SortKey(Head(sorted))) THEN <<x>> \o sorted
    ELSE <<Head(sorted)>> \o InsertSorted(Tail(sorted), x)

RECURSIVE SortJobs(_)
SortJobs(jobs) ==
    IF jobs = <<>> THEN <<>>
    ELSE InsertSorted(SortJobs(SubSeq(jobs, 1, Len(jobs) - 1)), jobs[Len(jobs)])

RECURSIVE FilterLoop(_, _, _, _)
\* the for loop: [jobs, kept, verdicts, raised]
FilterLoop(jobs, f, readings, include_unknown_global) ==
    IF jobs = <<>> THEN [jobs |-> <<>>, kept |-> <<>>, verdicts |-> <<>>, raised |-> FALSE]
    ELSE LET Step(r, rest) ==
                 IF r.raised
                 THEN [jobs |-> <<r.job>> \o Tail(jobs), kept |-> <<>>, verdicts |-> <<>>,
                       raised |-> TRUE]
                 ELSE [jobs |-> <<r.job>> \o rest.jobs,
                       kept |-> (IF r.keep THEN <<r.job>> ELSE <<>>) \o rest.kept,
                       verdicts |-> <<[exp_ok |-> r.exp_ok, keep |-> r.keep]>> \o rest.verdicts,
                       raised |-> rest.raised]
         IN Step(FilterOne(Head(jobs), f, Head(readings), include_unknown_global),
                 FilterLoop(Tail(jobs), f, Tail(readings), include_unknown_global))

\* [jobs, filtered, verdicts, raised]: jobs are the objects as the call leaves them;
\* an exception leaves the call without a list
filter_and_score_jobs(jobs, f, readings, include_unknown_global) ==
    LET Sorted(r) ==
            [jobs |-> r.jobs,
             filtered |-> IF r.raised THEN <<>> ELSE SortJobs(r.kept),
             verdicts |-> r.verdicts,
             raised |-> r.raised]
    IN Sorted(FilterLoop(jobs, f, readings, include_unknown_global))

(***************************************************************************)
(* WebSearchScraper.search_jobs_via_web: the de-duplication loop.          *)
(***************************************************************************)
\* an iteration keyed by link and source together
DedupeIterByLinkAndSource(job, seen, out) ==
    IF <<job.link, job.source>> \notin seen
    THEN [seen |-> seen \cup {<<job.link, job.source>>}, out |-> Append(out, job)]
    ELSE [seen |-> seen, out |-> out]

\* an iteration that lets every posting with an empty link through
DedupeIterSkippingEmptyLinks(job, seen, out) ==
    IF job.link = "" \/ job.link \notin seen
    THEN [seen |-> seen \cup {job.link}, out |-> Append(out, job)]
    ELSE [seen |-> seen, out |-> out]

\* one iteration: [seen, out]
DedupeIter(job, seen, out) ==
    IF job.link \notin seen
    THEN [seen |-> seen \cup {job.link}, out |-> Append(out, job)]
    ELSE [seen |-> seen, out |-> out]

RECURSIVE DedupeFrom(_, _, _)
DedupeFrom(jobs, seen, out) ==
    IF jobs = <<>> THEN out
    ELSE LET Rest(r) == DedupeFrom(Tail(jobs), r.seen, r.out)
         IN Rest(DedupeIter(Head(jobs), seen, out))

\* unique_jobs of the whole loop
Dedupe(jobs) == DedupeFrom(jobs, {}, <<>>)

(***************************************************************************)
(* The scrapers.                                                           *)
(***************************************************************************)
SeqsUpTo(S, n) == UNION {[1..k -> S] : k \in 0..n}

\* fetch_indeed_jobs / fetch_linkedin_jobs: one JobListing per card, oids from `first`
ScrapeCards(cards, source, first) ==
    [i \in 1..Len(cards) |->
        JobListing(first + i - 1, source, Pages[cards[i].page].title, Pages[cards[i].page].posted,
                   cards[i].link, Pages[cards[i].page].description,
                   ExperienceOf(
                       Pages[cards[i].page].title \o " " \o Pages[cards[i].page].description))]

\* _get_source_from_url, with the portals of source_mapping that the model's links name
SourceFromUrl(url) ==
    LET Mapped(domain) ==
            IF Contains(domain, "naukri.com") THEN "Naukri"
            ELSE IF Contains(domain, "linkedin.com") THEN "LinkedIn"
            ELSE IF Contains(domain, "indeed.com") THEN "Indeed"
            ELSE "Web (" \o domain \o ")"
    IN Mapped(Lower(Netloc(url)))

RECURSIVE ExtractJobs(_, _, _, _)
\* _extract_jobs_from_search_results over all queries: a result whose url is in
\* processed_urls is skipped, the others are scraped into a JobListing
ExtractJobs(results, processed, first, acc) ==
    IF results = <<>> THEN acc
    ELSE LET r == Head(results)
             pg == Pages[r.page]
         IN IF r.link \in processed THEN ExtractJobs(Tail(results), processed, first, acc)
            ELSE ExtractJobs(Tail(results), processed \cup {r.link}, first + 1,
                     Append(acc, JobListing(first, SourceFromUrl(r.link), pg.title, pg.posted,
                                            r.link, pg.description,
                                            ExperienceOf(
                                                pg.title \o " " \o pg.description \o " " \o r.snippet))))

\* search_jobs_via_web
search_jobs_via_web(results, first) == Dedupe(ExtractJobs(results, {}, first, <<>>))

(***************************************************************************)
(* main(): fetch from the three sources, build the filter, filter.         *)
(***************************************************************************)
MainIdle ==
    /\ all_jobs = <<>> /\ raw_jobs = <<>> /\ job_filter = NoFilter
    /\ filtered_jobs = <<>> /\ verdicts = <<>> /\ raised = FALSE
    /\ nows = <<>> /\ second_jobs = <<>>

DedupeIdle == dd_in = <<>> /\ dd_i = 0 /\ dd_seen = {} /\ dd_out = <<>>

NoCall == [method |-> ""]

CallIdle == call = NoCall /\ ret = <<>>

Init ==
    /\ pc = "start"
    /\ MainIdle
    /\ env \in Envs
    /\ clock = ClockStart
    /\ DedupeIdle
    /\ CallIdle

FetchIndeed ==
    /\ pc = "start"
    /\ \E cards \in SeqsUpTo(IndeedCards, MaxJobs) :
          all_jobs' = ScrapeCards(cards, "Indeed", 1)
    /\ pc' = "indeed"
    /\ UNCHANGED <<env, clock, raw_jobs, job_filter, filtered_jobs, verdicts, raised, nows,
                   second_jobs, ddVars, callVars>>

FetchLinkedIn ==
    /\ pc = "indeed"
    /\ \E cards \in SeqsUpTo(LinkedInCards, MaxJobs - Len(all_jobs)) :
          all_jobs' = all_jobs \o ScrapeCards(cards, "LinkedIn", Len(all_jobs) + 1)
    /\ pc' = "linkedin"
    /\ UNCHANGED <<env, clock, raw_jobs, job_filter, filtered_jobs, verdicts, raised, nows,
                   second_jobs, ddVars, callVars>>

FetchWeb ==
    /\ pc = "linkedin"
    /\ \E results \in SeqsUpTo(Results, MaxJobs - Len(all_jobs)) :
          /\ all_jobs' = all_jobs \o search_jobs_via_web(results, Len(all_jobs) + 1)
          /\ raw_jobs' = all_jobs'
    /\ pc' = "web"
    /\ UNCHANGED <<env, clock, job_filter, filtered_jobs, verdicts, raised, nows,
                   second_jobs, ddVars, callVars>>

CreateFilter ==
    /\ pc = "web"
    /\ job_filter' = JobFilterInit(env)
    /\ pc' = "ready"
    /\ UNCHANGED <<env, clock, all_jobs, raw_jobs, filtered_jobs, verdicts, raised, nows,
                   second_jobs, ddVars, callVars>>

\* the clock readings of one call: the hour may change once while the loop runs
Readings(n, from) ==
    {[i \in 1..n |-> IF i > k THEN from + 1 ELSE from] : k \in 0..n}

FilterAndScore ==
    /\ pc = "ready"
    /\ \E readings \in Readings(Len(all_jobs), clock) :
          LET Returned(r) ==
                  /\ all_jobs' = r.jobs
                  /\ filtered_jobs' = r.filtered
                  /\ verdicts' = r.verdicts
                  /\ raised' = r.raised
          IN /\ Returned(filter_and_score_jobs(all_jobs, job_filter, readings,
                                               env.INCLUDE_UNKNOWN_EXPERIENCE))
             /\ nows' = readings
             /\ clock' = IF readings = <<>> THEN clock ELSE readings[Len(readings)]
    /\ pc' = "filtered"
    /\ UNCHANGED <<env, raw_jobs, job_filter, second_jobs, ddVars, callVars>>

\* a second call at the same clock readings, on the objects the first call has
\* written to or on fresh copies of the scraped ones
Rerun ==
    /\ pc = "filtered"
    /\ ~raised
    /\ \E fresh \in BOOLEAN :
          LET Returned(r) ==
                  /\ all_jobs' = r.jobs
                  /\ second_jobs' = r.filtered
                  /\ raised' = r.raised
          IN /\ Returned(filter_and_score_jobs(IF fresh THEN raw_jobs ELSE all_jobs, job_filter,
                                               nows, env.INCLUDE_UNKNOWN_EXPERIENCE))
             /\ pc' = IF fresh THEN "rerun_fresh" ELSE "rerun_same"
    /\ UNCHANGED <<env, clock, raw_jobs, job_filter, filtered_jobs, verdicts, nows, ddVars, callVars>>

Next == FetchIndeed \/ FetchLinkedIn \/ FetchWeb \/ CreateFilter \/ FilterAndScore \/ Rerun

Spec == Init /\ [][Next]_vars

(***************************************************************************)
(* The de-duplication loop of search_jobs_via_web on its own, one          *)
(* iteration at a time, over every list of up to MaxDedupeLen postings.    *)
(***************************************************************************)
DedupeLinks == {"", "https://in.indeed.com/a", "https://naukri.com/n"}

DedupeSources == {"Indeed", "Naukri"}

\* all_jobs as the queries have filled it: the i-th posting is object i
DedupeInputs ==
    {[i \in 1..Len(c) |->
         JobListing(i, c[i].source, Pages[1].title, Pages[1].posted, c[i].link,
                    Pages[1].description, <<"", None, None>>)] :
       c \in SeqsUpTo([source : DedupeSources, link : DedupeLinks], MaxDedupeLen)}

InitDedupe ==
    /\ pc = "dedupe"
    /\ MainIdle
    /\ env = NoFilter
    /\ clock = ClockStart
    /\ dd_in \in DedupeInputs
    /\ dd_i = 0 /\ dd_seen = {} /\ dd_out = <<>>
    /\ CallIdle

\* one iteration of `for job in all_jobs`
DedupeStep ==
    /\ pc = "dedupe"
    /\ dd_i < Len(dd_in)
    /\ LET r == DedupeIter(dd_in[dd_i + 1], dd_seen, dd_out)
       IN dd_seen' = r.seen /\ dd_out' = r.out
    /\ dd_i' = dd_i + 1
    /\ UNCHANGED <<dd_in, mainVars, callVars>>

\* return unique_jobs
DedupeReturn ==
    /\ pc = "dedupe"
    /\ dd_i = Len(dd_in)
    /\ pc' = "deduped"
    /\ UNCHANGED <<env, clock, all_jobs, raw_jobs, job_filter, filtered_jobs, verdicts, raised,
                   nows, second_jobs, ddVars, callVars>>

NextDedupe == DedupeStep \/ DedupeReturn

SpecDedupe == InitDedupe /\ [][NextDedupe]_vars

(***************************************************************************)
(* ExperienceParser.calculate_experience_match_score called on its own, by *)
(* a JobFilter built with any bounds and flag, under either value of the   *)
(* module's INCLUDE_UNKNOWN_EXPERIENCE.                                     *)
(***************************************************************************)
\* MAX_EXPERIENCE_YEARS when the environment does not set it
DefaultMaxExperienceYears == 20

\* a posting's bound: None or a number of years
JobYears == {None} \cup 0..MaxYears \cup {DefaultMaxExperienceYears, FarYears}

\* a filter's bound: any integer, the constructor checks nothing
FilterYears == -1..MaxYears \cup {DefaultMaxExperienceYears}

\* JobFilter(...) with the constructor's own arguments
MatcherFilters ==
    [preferred_skills : {<<>>}, exclude_keywords : {<<>>}, min_skill_score : {1},
     min_experience_years : FilterYears, max_experience_years : FilterYears,
     exclude_experience_keywords : {<<>>}, include_unknown_experience : BOOLEAN]

InitMatcher ==
    /\ pc = "matcher"
    /\ all_jobs = <<>> /\ raw_jobs = <<>> /\ filtered_jobs = <<>> /\ verdicts = <<>>
    /\ raised = FALSE /\ nows = <<>> /\ second_jobs = <<>>
    /\ env \in [INCLUDE_UNKNOWN_EXPERIENCE : BOOLEAN]
    /\ job_filter \in MatcherFilters
    /\ clock = ClockStart
    /\ DedupeIdle
    /\ call \in [method : {"calculate_experience_match_score"},
                  job_min : JobYears, job_max : JobYears]
    /\ ret = <<>>

\* self.experience_parser.calculate_experience_match_score(job_min, job_max,
\*     self.min_experience_years, self.max_experience_years)
CallMatcher ==
    /\ pc = "matcher"
    /\ LET Returned(r) == ret' = r.value /\ raised' = r.raised
       IN Returned(calculate_experience_match_score(call.job_min, call.job_max,
                       job_filter.min_experience_years, job_filter.max_experience_years,
                       env.INCLUDE_UNKNOWN_EXPERIENCE))
    /\ pc' = "matched"
    /\ UNCHANGED <<env, clock, all_jobs, raw_jobs, job_filter, filtered_jobs, verdicts, nows,
                   second_jobs, ddVars, call>>

NextMatcher == CallMatcher

SpecMatcher == InitMatcher /\ [][NextMatcher]_vars

(***************************************************************************)
(* ExperienceParser.parse_experience_requirements called on its own, on    *)
(* texts written from a lead, an experience phrase in one of the forms the *)
(* patterns name, the word "experience" (or none) and a trail.  The        *)
(* numbers are ones int() converts.                                        *)
(***************************************************************************)
ParserForms == {"dash", "to", "plus", "minimum", "min", "at least", "bare", "none"}

ParserLeads == {"", "Senior ", "No experience? ", "Lead or junior "}

ParserWords == {" experience", " of experience", ""}

ParserTrails == {"", " required", " fresher"}

\* the pieces a text is written from; only a range has a second number
ParserPieces ==
    {c \in [lead : ParserLeads, form : ParserForms, n : {0, 5, 12}, m : {None, 2},
            word : ParserWords, trail : ParserTrails] :
        /\ (c.m # None) <=> (c.form \in {"dash", "to"})
        /\ c.form = "none" => c.n = 0}

\* the experience phrase of a text
PhraseOf(c) ==
    CASE c.form = "dash" -> ToStr(c.n) \o "-" \o ToStr(c.m) \o " years"
      [] c.form = "to" -> ToStr(c.n) \o " to " \o ToStr(c.m) \o " years"
      [] c.form = "plus" -> ToStr(c.n) \o "+ years"
      [] c.form = "minimum" -> "minimum " \o ToStr(c.n) \o " years"
      [] c.form = "min" -> "min " \o ToStr(c.n) \o " years"
      [] c.form = "at least" -> "at least " \o ToStr(c.n) \o " years"
      [] c.form = "bare" -> ToStr(c.n) \o " years"
      [] c.form = "none" -> "great team culture"

TextOf(c) == c.lead \o PhraseOf(c) \o c.word \o c.trail

ParserCalls ==
    {[method |-> "parse_experience_requirements", job_text |-> TextOf(c), pieces |-> c] :
        c \in ParserPieces}

InitParser ==
    /\ pc = "parser"
    /\ MainIdle
    /\ env = NoFilter
    /\ clock = ClockStart
    /\ DedupeIdle
    /\ call \in ParserCalls
    /\ ret = <<>>

\* self.experience_parser.parse_experience_requirements(full_text)
CallParser ==
    /\ pc = "parser"
    /\ ret' = parse_experience_requirements(call.job_text)
    /\ pc' = "parsed"
    /\ UNCHANGED <<env, clock, all_jobs, raw_jobs, job_filter, filtered_jobs, verdicts, raised,
                   nows, second_jobs, ddVars, call>>

NextParser == CallParser

SpecParser == InitParser /\ [][NextParser]_vars

(***************************************************************************)
(* JobFilter.parse_posting_time called on its own, on "posted" texts       *)
(* written from a lead, a count (or the word "an"), a separator, a unit    *)
(* and a trail.                                                            *)
(***************************************************************************)
TimeLeads == {"", "Posted ", "Posted today, ", "1 week, "}

TimeUnits == {"hour", "day", "week", "month", "minute"}

TimeTrails == {" ago", "s ago", "s ago, just in"}

\* the pieces a posted text is written from; a count of None is written "an"
TimePieces ==
    [lead : TimeLeads, count : {None, 1, 3, 45, 99999}, sep : {" ", "+ "}, unit : TimeUnits,
     trail : TimeTrails]

PostedOf(c) ==
    c.lead \o (IF c.count = None THEN "an" ELSE ToStr(c.count)) \o c.sep \o c.unit \o c.trail

TimeCalls ==
    {[method |-> "parse_posting_time", posted_text |-> PostedOf(c), pieces |-> c] :
        c \in TimePieces}

InitTime ==
    /\ pc = "time"
    /\ MainIdle
    /\ env = NoFilter
    /\ clock = ClockStart
    /\ DedupeIdle
    /\ call \in TimeCalls
    /\ ret = <<>>

\* self.parse_posting_time(job.posted), clock being its datetime.now()
CallTime ==
    /\ pc = "time"
    /\ LET Returned(r) == ret' = r.value /\ raised' = r.raised
       IN Returned(parse_posting_time(call.posted_text, clock))
    /\ pc' = "timed"
    /\ UNCHANGED <<env, clock, all_jobs, raw_jobs, job_filter, filtered_jobs, verdicts, nows,
                   second_jobs, ddVars, call>>

NextTime == CallTime

SpecTime == InitTime /\ [][NextTime]_vars

(***************************************************************************)
(* ResumeManager.customize_resumes_for_jobs called by main on the filtered *)
(* list.  The set-up is "ok", or names the early return taken; each job    *)
(* among the first max_jobs has an outcome: "saved" (save_customized_resume *)
(* returned a path), "save_failed" (it returned None) or "raised" (an      *)
(* exception reached the except clause of the loop, as create_job_folder's *)
(* mkdir can raise).  The record of a posting carries resume_customized;   *)
(* customized_resume_path is not modelled.                                 *)
(***************************************************************************)
ResumeSetups == {"ok", "no_customizer", "no_resume_files", "unreadable_resume"}

ResumeOutcomes == {"saved", "save_failed", "raised"}

\* the filtered list: the i-th posting is object i, as the scrapers created it
ResumeJobs(n) ==
    [i \in 1..n |->
        JobListing(i, "Indeed", Pages[1].title, Pages[1].posted, "https://in.indeed.com/a",
                   Pages[1].description, <<"", None, None>>)]

RECURSIVE CustomizeLoop(_, _, _, _)
\* the loop over jobs[:max_jobs] from position i on: customized_jobs when it ends
CustomizeLoop(jobs, outcomes, i, customized_jobs) ==
    IF i > Len(jobs) THEN customized_jobs
    ELSE CASE outcomes[i] = "saved" ->
                CustomizeLoop(jobs, outcomes, i + 1,
                    Append(customized_jobs, [jobs[i] EXCEPT !.resume_customized = TRUE]))
           [] outcomes[i] = "save_failed" ->
                CustomizeLoop(jobs, outcomes, i + 1,
                    Append(customized_jobs, [jobs[i] EXCEPT !.resume_customized = FALSE]))
           \* except Exception: ... continue, past customized_jobs.append(job)
           [] outcomes[i] = "raised" ->
                CustomizeLoop(jobs, outcomes, i + 1, customized_jobs)

\* the list the method returns
customize_resumes_for_jobs(jobs, max_jobs, setup, outcomes) ==
    IF setup # "ok" THEN jobs
    ELSE LET first == SubSeq(jobs, 1, Min(max_jobs, Len(jobs)))
             remaining == SubSeq(jobs, Min(max_jobs, Len(jobs)) + 1, Len(jobs))
         IN CustomizeLoop(first, outcomes, 1, <<>>)
              \o [k \in 1..Len(remaining) |-> [remaining[k] EXCEPT !.resume_customized = FALSE]]

ResumeCalls ==
    UNION {[method : {"customize_resumes_for_jobs"}, jobs : {ResumeJobs(n)},
            max_jobs : 0..MaxResumeJobs, setup : ResumeSetups,
            outcomes : [1..n -> ResumeOutcomes]] : n \in 0..MaxResumeJobs}

InitResume ==
    /\ pc = "resume"
    /\ call \in ResumeCalls
    /\ filtered_jobs = call.jobs
    /\ all_jobs = <<>> /\ raw_jobs = <<>> /\ job_filter = NoFilter
    /\ verdicts = <<>> /\ raised = FALSE /\ nows = <<>> /\ second_jobs = <<>>
    /\ env = NoFilter
    /\ clock = ClockStart
    /\ DedupeIdle
    /\ ret = <<>>

\* filtered_jobs = resume_manager.customize_resumes_for_jobs(filtered_jobs, MAX_RESUMES_TO_CUSTOMIZE)
CallCustomize ==
    /\ pc = "resume"
    /\ LET Returned(r) == ret' = r /\ filtered_jobs' = r
       IN Returned(customize_resumes_for_jobs(call.jobs, call.max_jobs, call.setup,
                                              call.outcomes))
    /\ pc' = "customized"
    /\ UNCHANGED <<env, clock, all_jobs, raw_jobs, job_filter, verdicts, raised, nows,
                   second_jobs, ddVars, call>>

NextResume == CallCustomize

SpecResume == InitResume /\ [][NextResume]_vars

(***************************************************************************)
(* Properties of the pipeline: main() after filter_and_score_jobs has      *)
(* returned (pc = "filtered"), with all_jobs the batch as the call left    *)
(* it and filtered_jobs the list it returned.                              *)
(***************************************************************************)
\* the posting at position i of the batch is in the returned list
Emitted(i) == \E k \in 1..Len(filtered_jobs) : filtered_jobs[k].oid = all_jobs[i].oid

ExperienceUnknown(j) == j.experience_years_min = None /\ j.experience_years_max = None

\* a configured disqualifying keyword occurs in the lower-cased title+description+experience_text
DisqualifyingKeywordIn(j) ==
    \E n \in 1..Len(job_filter.exclude_experience_keywords) :
        Contains(Lower(j.title \o " " \o j.description \o " " \o j.experience_required),
                 job_filter.exclude_experience_keywords[n])

\* the value the matcher computes for the posting's bounds under the configuration
MatcherValue(j) ==
    calculate_experience_match_score(j.experience_years_min, j.experience_years_max,
        job_filter.min_experience_years, job_filter.max_experience_years,
        env.INCLUDE_UNKNOWN_EXPERIENCE).value

\* the experience gate as the specification words it
PassesExperienceGate(j) ==
    IF ExperienceUnknown(j) THEN job_filter.include_unknown_experience
    ELSE ~DisqualifyingKeywordIn(j) /\ MatcherValue(j) > 0

\* the lower-cased title contains "ml", "machine learning" or "ai"
TitleFallback(j) == \E w \in {"ml", "machine learning", "ai"} : Contains(Lower(j.title), w)

\* C1: the list returned by the filter stage for a batch assembled from Indeed,
\* LinkedIn and web search never contains two postings with the same non-empty link.
C1_NoSharedLinkInOutput ==
    pc = "filtered" =>
        \A a, b \in 1..Len(filtered_jobs) :
            a # b /\ filtered_jobs[a].link # "" => filtered_jobs[a].link # filtered_jobs[b].link

(***************************************************************************)
(* Properties of the de-duplication loop, once it has returned.            *)
(***************************************************************************)
\* the positions of the first occurrence of each distinct link
FirstOccurrences(jobs) ==
    {i \in 1..Len(jobs) : \A j \in 1..(i - 1) : jobs[j].link # jobs[i].link}

\* the k-th smallest element of a set of positions
NthOf(S, k) == CHOOSE i \in S : Cardinality({j \in S : j <= i}) = k

EmptyLinked(jobs) == {i \in 1..Len(jobs) : jobs[i].link = ""}

InOutput(job) == \E k \in 1..Len(dd_out) : dd_out[k] = job

\* C2: the output of the de-duplication is the subsequence of the input made of the
\* first occurrence of each distinct link (exact string equality), in input order; of
\* two postings with the same link and different sources only the first survives.
C2_OutputIsFirstOccurrences ==
    pc = "deduped" =>
        /\ Len(dd_out) = Cardinality(FirstOccurrences(dd_in))
        /\ \A k \in 1..Len(dd_out) : dd_out[k] = dd_in[NthOf(FirstOccurrences(dd_in), k)]

\* two postings with the same non-empty link and different sources went through the loop
C2_Witness ==
    /\ pc = "deduped"
    /\ \E i, j \in 1..Len(dd_in) :
          /\ i < j
          /\ dd_in[i].link # "" /\ dd_in[i].link = dd_in[j].link
          /\ dd_in[i].source # dd_in[j].source
          /\ InOutput(dd_in[i]) /\ ~InOutput(dd_in[j])

C4_ExperienceGate ==
    pc = "filtered" =>
        \A i \in 1..Len(all_jobs) : verdicts[i].exp_ok <=> PassesExperienceGate(all_jobs[i])

\* an experience-unknown posting that carries a keyword passed, and a posting without
\* a keyword was rejected on its score
C4_Witness ==
    /\ pc = "filtered"
    /\ \E i \in 1..Len(all_jobs) :
          ExperienceUnknown(all_jobs[i]) /\ DisqualifyingKeywordIn(all_jobs[i])
            /\ verdicts[i].exp_ok
    /\ \E i \in 1..Len(all_jobs) :
          ~ExperienceUnknown(all_jobs[i]) /\ ~DisqualifyingKeywordIn(all_jobs[i])
            /\ MatcherValue(all_jobs[i]) = 0 /\ ~verdicts[i].exp_ok

\* C5: a posting is retained iff it passes the experience gate and its skill score
\* reaches min_skill_score or its title has a fallback keyword; no posting that fails
\* the experience gate is emitted, whatever its title.
C5_RetainedIffGateAndSkillOrTitle ==
    pc = "filtered" =>
        \A i \in 1..Len(all_jobs) :
            Emitted(i) <=>
                /\ PassesExperienceGate(all_jobs[i])
                /\ \/ all_jobs[i].skill_score >= job_filter.min_skill_score
                   \/ TitleFallback(all_jobs[i])

\* one posting was retained on its title alone, another with a fallback title was
\* dropped by the experience gate
C5_Witness ==
    /\ pc = "filtered"
    /\ \E i \in 1..Len(all_jobs) :
          /\ all_jobs[i].skill_score < job_filter.min_skill_score
          /\ TitleFallback(all_jobs[i]) /\ Emitted(i)
    /\ \E i \in 1..Len(all_jobs) :
          /\ TitleFallback(all_jobs[i]) /\ ~PassesExperienceGate(all_jobs[i]) /\ ~Emitted(i)

\* C6: with min_skill_score = 0 the output contains exactly the postings that pass
\* the experience gate, whatever their skills_found.
C6_ZeroThresholdAdmitsGatePassers ==
    pc = "filtered" /\ job_filter.min_skill_score = 0 =>
        \A i \in 1..Len(all_jobs) : Emitted(i) <=> PassesExperienceGate(all_jobs[i])

\* C6 as stated: with min_skill_score = 0 the output contains every input posting
C6_ZeroThresholdAdmitsAll ==
    pc = "filtered" /\ job_filter.min_skill_score = 0 =>
        \A i \in 1..Len(all_jobs) : Emitted(i)

\* under a zero threshold a posting without skills or fallback title was emitted and
\* another posting was dropped
C6_Witness ==
    /\ pc = "filtered" /\ job_filter.min_skill_score = 0
    /\ \E i \in 1..Len(all_jobs) :
          all_jobs[i].skills_found = <<>> /\ ~TitleFallback(all_jobs[i]) /\ Emitted(i)
    /\ \E i \in 1..Len(all_jobs) : ~Emitted(i)

C8_SecondRunIdentical ==
    pc \in {"rerun_fresh", "rerun_same"} => ~raised /\ second_jobs = filtered_jobs

\* the second run was given the records of the first and returned postings with skills
C8_Witness ==
    /\ pc = "rerun_same"
    /\ \E k \in 1..Len(second_jobs) :
          second_jobs[k].skills_found # <<>> /\ second_jobs[k].experience_match_score > 0

\* C9: no error leaves time parsing, skill scoring, experience extraction, matching,
\* filtering or sorting, whatever the texts of the postings.
C9_NoErrorPropagates == ~raised

\* a posting whose posted text holds a number too large for the clock, and one whose
\* number is too long for int(), went through the filter
C9_Witness ==
    /\ pc = "filtered"
    /\ \E i, j \in 1..Len(all_jobs) :
          /\ all_jobs[i].posted = "9999 weeks ago" /\ all_jobs[i].posting_time = nows[i]
          /\ all_jobs[j].posted = "99999 days ago" /\ all_jobs[j].posting_time = nows[j]

\* C10: every emitted posting has its posting time, skills_found and skill_score set,
\* and its experience_match_score is the matcher's value for its bounds (5 for an
\* experience-unknown posting admitted under include_unknown), within 0..10.
C10_DerivedFieldsPopulated ==
    pc = "filtered" =>
        \A k \in 1..Len(filtered_jobs) :
            LET j == filtered_jobs[k]
            IN /\ j.posting_time # None
               /\ j.skill_score = Len(j.skills_found)
               /\ j.experience_match_score = MatcherValue(j)
               /\ j.experience_match_score \in 0..10

(***************************************************************************)
(* Properties of the skill scorer.                                         *)
(***************************************************************************)
\* the positions of the skills found can be laid along the vocabulary in rising order
InVocabularyOrder(found, vocabulary) ==
    \E at \in [1..Len(found) -> 1..Len(vocabulary)] :
        /\ \A n \in 1..Len(found) : vocabulary[at[n]] = found[n]
        /\ \A a, b \in 1..Len(found) : a < b => at[a] < at[b]

\* C11: after enrichment skill_score is the length of skills_found, every element of
\* skills_found is an entry of the configured lower-cased vocabulary that occurs in the
\* lower-cased "title description", and the elements are in vocabulary order.
C11_SkillsFoundFromVocabularyInOrder ==
    pc = "filtered" =>
        \A i \in 1..Len(all_jobs) :
            LET j == all_jobs[i]
                vocabulary == job_filter.preferred_skills
            IN /\ j.skill_score = Len(j.skills_found)
               /\ \A n \in 1..Len(j.skills_found) :
                     /\ \E v \in 1..Len(vocabulary) : vocabulary[v] = j.skills_found[n]
                     /\ Contains(Lower(j.title \o " " \o j.description), j.skills_found[n])
               /\ InVocabularyOrder(j.skills_found, vocabulary)

\* a posting was enriched whose text names two skills in the order opposite to the
\* vocabulary's
C11_Witness ==
    /\ pc = "filtered"
    /\ \E i \in 1..Len(all_jobs) :
          /\ all_jobs[i].skills_found = <<"python", "pytorch">>
          /\ all_jobs[i].description = "5+ years experience with PyTorch, Python"

(***************************************************************************)
(* Properties of the matcher, once the call has returned (pc = "matched"). *)
(***************************************************************************)
\* the whole years of an inclusive range
YearsOf(lo, hi) == lo..hi

\* C12: the experience match score is an integer in 0..10, and the call raises
\* nothing, for every job_min and job_max (each null or a number of years, job_min
\* above job_max included) and every filter_min and filter_max.
C12_ScoreWithinZeroToTen ==
    pc = "matched" => ~raised /\ ret \in 0..10

\* a posting whose minimum lies above its maximum was scored as a near miss
C12_Witness ==
    /\ pc = "matched"
    /\ call.job_max # None /\ call.job_min > call.job_max
    /\ job_filter.min_experience_years > job_filter.max_experience_years
    /\ ret = 3

\* C13: when the inclusive ranges [job_min, job_max] and [filter_min, filter_max]
\* have a year in common, the score is 10 times the number of common years divided by
\* the number of years of the shorter range, rounded down.
C13_OverlapScoreIsFloorOfRatio ==
    pc = "matched" /\ call.job_min # None /\ call.job_max # None =>
        LET job == YearsOf(call.job_min, call.job_max)
            filter == YearsOf(job_filter.min_experience_years, job_filter.max_experience_years)
        IN job \cap filter # {} =>
              ret = (10 * Cardinality(job \cap filter))
                       \div Min(Cardinality(job), Cardinality(filter))

\* the posting's range 2-5 was matched against the filter's range 3-7 and scored 7
C13_Witness ==
    /\ pc = "matched"
    /\ call.job_min = 2 /\ call.job_max = 5
    /\ job_filter.min_experience_years = 3 /\ job_filter.max_experience_years = 7
    /\ ret = 7

\* C14: with both bounds null the score is 5 when the filter was built with
\* include_unknown_experience true and 0 when it was built with false, whatever else
\* holds.
C14_UnknownScoreFollowsFilterFlag ==
    pc = "matched" /\ call.job_min = None /\ call.job_max = None =>
        ret = IF job_filter.include_unknown_experience THEN 5 ELSE 0

(***************************************************************************)
(* Properties of the experience parser, once the call has returned         *)
(* (pc = "parsed"); call.pieces tells how the text was written.            *)
(***************************************************************************)
\* the text holds an experience phrase followed by "(of) experience"
NumericWritten(c) == c.form # "none" /\ c.word # ""

RangeWritten(c) == c.form \in {"dash", "to"} /\ c.word # ""

SingleBoundWritten(c) == c.form \in {"plus", "minimum", "min", "at least", "bare"} /\ c.word # ""

\* the named levels and the no-experience indicators that occur in the lower-cased text
LevelsIn(text) ==
    {w \in {"fresher", "graduate", "entry level", "junior", "mid level", "intermediate",
            "senior", "lead", "principal"} : Contains(LowerByChar(text), w)}

IndicatorsIn(text) ==
    {w \in {"no experience", "fresher", "0 years", "entry level"} : Contains(LowerByChar(text), w)}

\* a result of numeric shape: "N-M years" with both bounds, or "N+ years" with the lower one
NumericResult(r) ==
    /\ r[2] # None
    /\ \/ r[3] # None /\ r[1] = ToStr(r[2]) \o "-" \o ToStr(r[3]) \o " years"
       \/ r[3] = None /\ r[1] = ToStr(r[2]) \o "+ years"

\* C15: a text with a numeric range in either spelling, "N-M years (of) experience" or
\* "N to M years (of) experience", is parsed to ("N-M years", N, M), whatever single
\* bound the text can also be read as.
C15_RangeInEitherSpelling ==
    pc = "parsed" /\ RangeWritten(call.pieces) =>
        ret = <<ToStr(call.pieces.n) \o "-" \o ToStr(call.pieces.m) \o " years",
                call.pieces.n, call.pieces.m>>

\* C16: a text without a numeric range that holds "N+ years (of) experience",
\* "minimum|min|at least N years (of) experience" or bare "N years (of) experience" is
\* parsed to ("N+ years", N, null).
C16_SingleBoundForms ==
    pc = "parsed" /\ SingleBoundWritten(call.pieces) =>
        ret = <<ToStr(call.pieces.n) \o "+ years", call.pieces.n, None>>

\* "5+ years experience required" was parsed to ("5+ years", 5, None)
C16_Witness ==
    /\ pc = "parsed"
    /\ call.job_text = "5+ years experience required"
    /\ ret = <<"5+ years", 5, None>>

\* C17: for every text in which a numeric pattern matches the result is the numeric
\* one, whichever level words the text holds and wherever they stand; a named level
\* is returned only when no numeric pattern matched.
C17_NumericBeforeLevels ==
    pc = "parsed" =>
        /\ NumericWritten(call.pieces) => NumericResult(ret)
        /\ (\E w \in LevelsIn(call.job_text) : ret[1] = Title(w)) => ~NumericWritten(call.pieces)

\* a text with one level word before the numeric phrase and another after it was parsed
\* to the numeric result
C17_Witness ==
    /\ pc = "parsed"
    /\ call.pieces.lead = "Senior " /\ call.pieces.trail = " fresher"
    /\ call.pieces.form = "at least" /\ call.pieces.word = " of experience"
    /\ NumericResult(ret)

\* C18: the result is ("", null, null) exactly when the lower-cased text holds no
\* numeric pattern, no named level and no no-experience indicator; a text whose only
\* match is a no-experience indicator gives (the indicator title-cased, 0, 2); a text
\* with "fresher" and no numeric match gives ("Fresher", 0, 1).
C18_UnknownIndicatorAndFresher ==
    pc = "parsed" =>
        LET text == call.job_text
            numeric == NumericWritten(call.pieces)
        IN /\ ret = <<"", None, None>>
                 <=> ~numeric /\ LevelsIn(text) = {} /\ IndicatorsIn(text) = {}
           /\ ~numeric /\ LevelsIn(text) = {} /\ IndicatorsIn(text) # {}
                 => \E w \in IndicatorsIn(text) : ret = <<Title(w), 0, 2>>
           /\ ~numeric /\ "fresher" \in LevelsIn(text) => ret = <<"Fresher", 0, 1>>

\* "0 years" alone was parsed to ("0 Years", 0, 2), by the indicator and not as a number
C18_Witness ==
    /\ pc = "parsed"
    /\ call.job_text = "0 years"
    /\ ret = <<"0 Years", 0, 2>>

(***************************************************************************)
(* Properties of the time parser, once the call has returned               *)
(* (pc = "timed"); call.pieces tells how the text was written and clock is *)
(* the now of the call.                                                    *)
(***************************************************************************)
\* the text is taken as posted right now: it holds "just" or "now"
JustNow(text) == Contains(LowerByChar(text), "just") \/ Contains(LowerByChar(text), "now")

\* the first category, in the order hour, day, week, month, whose keyword the text
\* holds; "" when it holds none or is taken as posted right now
FirstCategory(text) ==
    LET units == <<"hour", "day", "week", "month">>
        held == {k \in 1..4 : Contains(LowerByChar(text), units[k])}
    IN IF JustNow(text) \/ held = {} THEN "" ELSE units[SetMin(held)]

\* the count written right before the first keyword of the text's first category;
\* None when there is none
CountFor(c) ==
    LET With(category) ==
            IF category = "" THEN None
            ELSE IF c.lead = "1 week, " /\ category = "week" THEN 1
            ELSE IF c.unit = category /\ c.count # None /\ c.sep = " " THEN c.count
            ELSE None
    IN With(FirstCategory(PostedOf(c)))

\* the text was written with a count right before the keyword of its first category
CountBeforeKeyword(c) == CountFor(c) # None

\* the hours of one unit: a week is 7 days and a month 30
HoursOf(unit) ==
    CASE unit = "hour" -> 1 [] unit = "day" -> 24 [] unit = "week" -> 7 * 24
      [] unit = "month" -> 30 * 24

\* C19: for a text whose first category is hour, day, week or month with the integer n
\* before the keyword, the result is now minus n hours, n days, 7n days or 30n days,
\* whenever that instant is one a datetime can hold.
C19_TimeArithmetic ==
    pc = "timed" /\ CountBeforeKeyword(call.pieces) =>
        LET hours == CountFor(call.pieces) * HoursOf(FirstCategory(call.posted_text))
        IN clock - hours >= DatetimeMin => ret = clock - hours

\* "3 hours ago" gave now minus 3 hours
C19_Witness ==
    /\ pc = "timed"
    /\ call.posted_text = "3 hours ago"
    /\ ret = clock - 3

\* C20: a text that matches no category, or that holds a category keyword with no
\* integer before it, gives exactly now; the result is never null, never later than
\* now, and no error leaves the call.
C20_FailsOpenToNow ==
    pc = "timed" =>
        /\ ~raised /\ ret # None /\ ret <= clock
        /\ ~CountBeforeKeyword(call.pieces) => ret = clock

\* "an hour ago" gave now
C20_Witness ==
    /\ pc = "timed"
    /\ call.posted_text = "an hour ago"
    /\ ret = clock

(***************************************************************************)
(* Properties of the pipeline's use of the excluded keywords.              *)
(***************************************************************************)
\* a configured exclude keyword occurs in the lower-cased "title description"
ExcludeKeywordIn(j) ==
    \E n \in 1..Len(job_filter.exclude_keywords) :
        Contains(Lower(j.title \o " " \o j.description), job_filter.exclude_keywords[n])

\* C21: a posting whose lower-cased "title description" holds a configured exclude
\* keyword is filtered out: it is never in the list the filter returns.
C21_ExcludeKeywordsEnforced ==
    pc = "filtered" =>
        \A k \in 1..Len(filtered_jobs) : ~ExcludeKeywordIn(filtered_jobs[k])

(***************************************************************************)
(* More properties of the matcher (pc = "matched").                        *)
(***************************************************************************)
\* the posting's range as the matcher reads it: a missing minimum is 0, a missing
\* maximum is the minimum plus 5
NormalizedMin == IF call.job_min = None THEN 0 ELSE call.job_min

NormalizedMax == IF call.job_max = None THEN NormalizedMin + 5 ELSE call.job_max

JobRange == YearsOf(NormalizedMin, NormalizedMax)

FilterRange == YearsOf(job_filter.min_experience_years, job_filter.max_experience_years)

\* at least one bound of the posting is known
SomeBoundKnown == call.job_min # None \/ call.job_max # None

\* the years between the nearest edges of two ranges without a common year
GapBetween(A, B) == SetMin({Abs(x - y) : x \in A, y \in B})

\* the matcher's value for an explicit range under the filter and constant of the state
ScoreOf(lo, hi, filter_lo, filter_hi) ==
    calculate_experience_match_score(lo, hi, filter_lo, filter_hi,
                                     env.INCLUDE_UNKNOWN_EXPERIENCE).value

\* C22: when the normalized job range and the filter range are both valid (min <= max)
\* and have no year in common, the score is 3 if the gap between their nearest edges
\* is at most 2 years and 0 otherwise, on whichever side the posting lies.
C22_NearMissScore ==
    pc = "matched" /\ SomeBoundKnown /\ JobRange # {} /\ FilterRange # {}
                   /\ JobRange \cap FilterRange = {} =>
        ret = IF GapBetween(JobRange, FilterRange) <= 2 THEN 3 ELSE 0

\* a posting two years above the filter's range was scored 3
C22_Witness ==
    /\ pc = "matched"
    /\ call.job_min = 6 /\ call.job_max = 7
    /\ job_filter.min_experience_years = 3 /\ job_filter.max_experience_years = 4
    /\ ret = 3

\* C23: when exactly one bound of the posting is null the score is that of the explicit
\* range [0, job_max] (job_min null) or [job_min, job_min + 5] (job_max null).
C23_MissingBoundNormalized ==
    pc = "matched" =>
        LET filter_lo == job_filter.min_experience_years
            filter_hi == job_filter.max_experience_years
        IN /\ call.job_min = None /\ call.job_max # None
                 => ret = ScoreOf(0, call.job_max, filter_lo, filter_hi)
           /\ call.job_min # None /\ call.job_max = None
                 => ret = ScoreOf(call.job_min, call.job_min + 5, filter_lo, filter_hi)

\* a posting with minimum 2 and no maximum was scored as 2-7 against the filter 3-7
C23_Witness ==
    /\ pc = "matched"
    /\ call.job_min = 2 /\ call.job_max = None
    /\ job_filter.min_experience_years = 3 /\ job_filter.max_experience_years = 7
    /\ ret = 10

\* C24: with both bounds of the posting known, swapping the posting's range and the
\* filter's range leaves the score unchanged whenever the two ranges have equal length.
C24_SwapOfEqualLengths ==
    pc = "matched" /\ call.job_min # None /\ call.job_max # None
                   /\ job_filter.min_experience_years >= 0
                   /\ job_filter.max_experience_years >= 0
                   /\ call.job_max - call.job_min
                        = job_filter.max_experience_years - job_filter.min_experience_years =>
        ret = ScoreOf(job_filter.min_experience_years, job_filter.max_experience_years,
                      call.job_min, call.job_max)

\* two ranges of four years with three years in common were matched
C24_Witness ==
    /\ pc = "matched"
    /\ call.job_min = 2 /\ call.job_max = 5
    /\ job_filter.min_experience_years = 3 /\ job_filter.max_experience_years = 6
    /\ ret = 7

(***************************************************************************)
(* More properties of the experience parser (pc = "parsed").               *)
(***************************************************************************)
\* the fixed order of the named levels, with the bounds mapped to each
LevelOrder ==
    << <<"fresher", 0, 1>>, <<"graduate", 0, 2>>, <<"entry level", 0, 2>>, <<"junior", 0, 3>>,
       <<"mid level", 2, 8>>, <<"intermediate", 3, 8>>, <<"senior", 5, 15>>, <<"lead", 7, 20>>,
       <<"principal", 8, 20>> >>

\* C25: when a text without a numeric match holds several named levels, the first
\* entry of the fixed order fresher, graduate, entry level, junior, mid level,
\* intermediate, senior, lead, principal that occurs in the lower-cased text decides:
\* the result is (the phrase title-cased, its mapped bounds), wherever the words stand.
C25_LevelByMappingOrder ==
    pc = "parsed" /\ ~NumericWritten(call.pieces) /\ LevelsIn(call.job_text) # {} =>
        LET first == SetMin({i \in 1..Len(LevelOrder) : LevelOrder[i][1] \in LevelsIn(call.job_text)})
        IN ret = <<Title(LevelOrder[first][1]), LevelOrder[first][2], LevelOrder[first][3]>>

\* a text with "lead" before "junior" was parsed to the level Junior
C25_Witness ==
    /\ pc = "parsed"
    /\ call.job_text = "Lead or junior great team culture required"
    /\ ret = <<"Junior", 0, 3>>

\* C29: whenever both bounds of the result are non-null, min_years <= max_years, for
\* every text, a descending range such as "5-2 years experience" included.
C29_MinNotAboveMax ==
    pc = "parsed" /\ ret[2] # None /\ ret[3] # None => ret[2] <= ret[3]

(***************************************************************************)
(* More properties of the time parser (pc = "timed").                      *)
(***************************************************************************)
\* the unit categories whose keyword the lower-cased text holds
CategoriesIn(text) ==
    {u \in {"hour", "day", "week", "month"} : Contains(LowerByChar(text), u)}

\* C26: only the first matching category, in the order just/now, hour, day, week,
\* month, is evaluated: a text with "just" or "now" gives now even with a number and a
\* unit, and a text with the keywords of two unit categories is resolved by the earlier
\* one alone, which gives now when no integer stands before its keyword.
C26_FirstCategoryOnly ==
    pc = "timed" =>
        /\ JustNow(call.posted_text) => ret = clock
        /\ ~JustNow(call.posted_text) /\ Cardinality(CategoriesIn(call.posted_text)) >= 2 =>
              LET hours == CountFor(call.pieces) * HoursOf(FirstCategory(call.posted_text))
              IN ret = IF CountFor(call.pieces) # None /\ clock - hours >= DatetimeMin
                       THEN clock - hours ELSE clock

\* "Posted today, 3 weeks ago" gave now: the day category has no integer and the week
\* category was not tried
C26_Witness ==
    /\ pc = "timed"
    /\ call.posted_text = "Posted today, 3 weeks ago"
    /\ ret = clock

\* C27: whenever the normalized job range and the filter range have a year in common
\* the score is above 0, so that the experience gate retains the posting, and it is
\* not below the 3 of a near miss.
C27_OverlapAccepted ==
    pc = "matched" /\ SomeBoundKnown /\ JobRange \cap FilterRange # {} =>
        ret > 0 /\ ret >= 3

(***************************************************************************)
(* The place of the experience-unknown postings in the returned list.      *)
(***************************************************************************)
\* C28: after the first run on freshly created postings every emitted
\* experience-unknown posting has experience_match_score 0, every emitted
\* experience-known posting has a score of at least 1, and in the returned list no
\* experience-unknown posting stands before an experience-known one.
C28_UnknownAfterKnown ==
    pc = "filtered" =>
        /\ \A k \in 1..Len(filtered_jobs) :
              IF ExperienceUnknown(filtered_jobs[k])
              THEN filtered_jobs[k].experience_match_score = 0
              ELSE filtered_jobs[k].experience_match_score >= 1
        /\ \A a, b \in 1..Len(filtered_jobs) :
              a < b => ~(ExperienceUnknown(filtered_jobs[a]) /\ ~ExperienceUnknown(filtered_jobs[b]))

\* an experience-unknown posting that came first in the batch and has the higher skill
\* score was returned behind an experience-known one
C28_Witness ==
    /\ pc = "filtered"
    /\ Len(filtered_jobs) = 2
    /\ ~ExperienceUnknown(filtered_jobs[1]) /\ ExperienceUnknown(filtered_jobs[2])
    /\ filtered_jobs[2].oid < filtered_jobs[1].oid
    /\ filtered_jobs[2].skill_score >= filtered_jobs[1].skill_score

(***************************************************************************)
(* Properties of the resume customization, once the call has returned      *)
(* (pc = "customized").                                                    *)
(***************************************************************************)
\* C30: the returned list holds every input job exactly once, in input order, whatever
\* the outcome of the steps for each job (saved, save failed, exception raised), and
\* only a job among the first max_jobs whose customized resume was saved has
\* resume_customized true.
C30_NoJobLost ==
    pc = "customized" =>
        /\ Len(ret) = Len(call.jobs)
        /\ \A k \in 1..Len(ret) :
              /\ k <= Len(call.jobs) => ret[k].oid = call.jobs[k].oid
              /\ ret[k].resume_customized =>
                    \E i \in 1..Min(call.max_jobs, Len(call.jobs)) :
                        /\ call.jobs[i].oid = ret[k].oid
                        /\ call.setup = "ok" /\ call.outcomes[i] = "saved"

====
